---- MODULE Spec2Model ----
(***************************************************************************)
(* A model of rqalpha's BaseDataSource (rqalpha/data/base_data_source.py): *)
(* the memoised day-bar series, the point lookup get_bar, get_settle_price,*)
(* the window lookup history_bars and the forward adjustment _adjust_bar   *)
(* with its step function _factor_for_date.                                *)
(*                                                                         *)
(* numpy float64 values are modelled as exact rationals in lowest terms;   *)
(* a numpy array is modelled as a record that names the buffer it is a     *)
(* view of, so that in-place writes through a view reach the buffer.       *)
(***************************************************************************)
EXTENDS Integers, Sequences, FiniteSets, TLC

VARIABLES
    calendar,        \* the dates a caller may pass (trading calendar days)
    day_bars,        \* self._day_bars: partition -> order_book_id -> series
    ex_cum_factor,   \* self._ex_cum_factor: order_book_id -> factor series
    all_cache,       \* lru_cache of _all_day_bars_of, keyed by instrument
    filtered_cache,  \* lru_cache of _filtered_day_bars, keyed by instrument
    get_bars_calls,  \* number of DayBarStore.get_bars reads per instrument
    ret              \* the call that ran last, with its outcome

vars == <<calendar, day_bars, ex_cum_factor, all_cache, filtered_cache,
          get_bars_calls, ret>>

(***************************************************************************)
(* Bounds of the model.                                                    *)
(***************************************************************************)
\* number of calendar days (and so the longest bar series) of a world
MaxDays == 3
\* cumulative factor values range over 1..MaxFactor
MaxFactor == 2
\* the read counter saturates here (the memoised code never gets near it)
MaxReads == 3
\* breakpoints of the factor series checked on their own range over this
\* many days
MaxBreaks == 4

(***************************************************************************)
(* float64 values as rationals in lowest terms.                            *)
(***************************************************************************)
RECURSIVE Gcd(_, _)
Gcd(a, b) == IF b = 0 THEN a ELSE Gcd(b, a % b)

Rat(n, d) == LET g == Gcd(n, d) IN [num |-> n \div g, den |-> d \div g]

R(n) == Rat(n, 1)

RatMul(x, y) == Rat(x.num * y.num, x.den * y.den)

RatDiv(x, y) == Rat(x.num * y.den, x.den * y.num)

(***************************************************************************)
(* Dates.  A caller passes a date; the data source compares integers.      *)
(***************************************************************************)
Date(y, m, d) == [year |-> y, month |-> m, day |-> d]

\* rqalpha.utils.datetime_func.convert_date_to_int, to day resolution
convert_date_to_int(dt) == dt.year * 10000 + dt.month * 100 + dt.day

\* the k-th calendar day of the enumerated worlds (2020-01-02 is day 1)
Day(k) == Date(2020, 1, k + 1)

(***************************************************************************)
(* Instruments and the category -> partition table.                        *)
(***************************************************************************)
INSTRUMENT_TYPE_MAP ==
    [t \in {"CS", "INDX", "Future", "ETF", "LOF", "FenjiA", "FenjiB", "FenjiMu"} |->
        CASE t = "CS" -> 0
          [] t = "INDX" -> 1
          [] t = "Future" -> 2
          [] OTHER -> 3]

Partitions == {0, 1, 2, 3}

StockInst == [order_book_id |-> "000001.XSHE", type |-> "CS"]
IndexInst == [order_book_id |-> "000300.XSHG", type |-> "INDX"]
FundInst == [order_book_id |-> "510050.XSHG", type |-> "ETF"]

Instruments == {StockInst, IndexInst, FundInst}

OrderBookIds == {i.order_book_id : i \in Instruments}

_index_of(instrument) == INSTRUMENT_TYPE_MAP[instrument.type]

(***************************************************************************)
(* Bars, series and arrays.                                                *)
(***************************************************************************)
\* the dtype.names of a day-bar array
FieldNames == {"datetime", "close", "volume", "settlement"}

PRICE_FIELDS == {"open", "close", "high", "low", "limit_up", "limit_down",
                 "acc_net_value", "unit_net_value"}

\* "None" of Python for a series; present series carry their rows
Absent == [present |-> FALSE, rows |-> <<>>]
Present(rows) == [present |-> TRUE, rows |-> rows]

\* a numpy array: the buffer it views ("all" / "filtered" cache entries or a
\* "fresh" allocation), the offset of its first row in that buffer, its rows
Array(owner, off, rows) == [owner |-> owner, off |-> off, rows |-> rows]

\* bars[left:i], a view
Slice(a, left, i) == Array(a.owner, a.off + left, SubSeq(a.rows, left + 1, i))

\* a faulty variant of the left search: the insertion point after equal values
SearchSortedLeftAsRight(column, v) ==
    Cardinality({k \in 1..Len(column) : column[k] <= v})

\* column.searchsorted(v, side='left'): rows with a value < v
SearchSortedLeft(column, v) == Cardinality({k \in 1..Len(column) : column[k] < v})

\* column.searchsorted(v, side='right'): rows with a value <= v
SearchSortedRight(column, v) == Cardinality({k \in 1..Len(column) : column[k] <= v})

Column(rows, f) == [k \in 1..Len(rows) |-> rows[k][f]]

(***************************************************************************)
(* Field selectors: None, one name (a str) or a list of names.             *)
(***************************************************************************)
NoFields == [kind |-> "none", name |-> "", names |-> {}]
OneField(f) == [kind |-> "str", name |-> f, names |-> {}]
FieldList(fs) == [kind |-> "list", name |-> "", names |-> fs]

\* isinstance(fields, str)
IsStr(fields) == fields.kind = "str"

_are_fields_valid(fields, valid_fields) ==
    IF fields.kind = "none" THEN TRUE
    ELSE IF IsStr(fields) THEN fields.name \in valid_fields
    ELSE \A field \in fields.names : field \in valid_fields

\* rows[fields]: a column for one name, narrower records for a list
Project(rows, fields) ==
    IF IsStr(fields) THEN Column(rows, fields.name)
    ELSE [k \in 1..Len(rows) |-> [f \in fields.names |-> rows[k][f]]]

\* "bars if fields is None else bars[fields]": a view of the same buffer
Take(bars, fields) ==
    IF fields.kind = "none" THEN bars
    ELSE Array(bars.owner, bars.off, Project(bars.rows, fields))

\* a faulty variant of np.copy: no copy, the same buffer
NpCopyAlias(a) == a

\* np.copy(a): a new buffer holding the same rows

NpCopy(a) == Array("fresh", 0, a.rows)

\* seq[k] of Python for -len <= k < len (a negative k counts from the end)
PyIndex(seq, k) == IF k >= 0 THEN seq[k + 1] ELSE seq[Len(seq) + k + 1]

(***************************************************************************)
(* Outcomes of a call.                                                     *)
(***************************************************************************)
\* an array returned to the caller; wrote: rows were assigned in place
Ok(arr, adjusted, wrote) ==
    [status |-> "ok", exc |-> "", owner |-> arr.owner, off |-> arr.off,
     value |-> arr.rows, adjusted |-> adjusted, wrote |-> wrote]

Raise(exc) ==
    [status |-> "raise", exc |-> exc, owner |-> "fresh", off |-> 0,
     value |-> <<>>, adjusted |-> FALSE, wrote |-> FALSE]

ReturnNone ==
    [status |-> "none", exc |-> "", owner |-> "fresh", off |-> 0,
     value |-> <<>>, adjusted |-> FALSE, wrote |-> FALSE]

(***************************************************************************)
(* The factor step function and the adjustment engine.                     *)
(***************************************************************************)
_factor_for_date(dates, factors, d) ==
    IF d > PyIndex(dates, -1) THEN PyIndex(factors, -1)
    ELSE LET pos == SearchSortedRight(dates, d)
         IN  PyIndex(factors, pos - 1)

\* a faulty variant of the normalisation: division by the first row's factor
NormalizedByFirstFactor(dates, ex_cum_factors, datetimes) ==
    LET factors == [k \in 1..Len(datetimes) |->
                       _factor_for_date(dates, ex_cum_factors, datetimes[k])]
    IN  [k \in 1..Len(datetimes) |-> RatDiv(factors[k], PyIndex(factors, 0))]

\* lines 164-168: the per-row factors, divided by the last row's factor
NormalizedFactors(dates, ex_cum_factors, datetimes) ==
    LET factors == [k \in 1..Len(datetimes) |->
                       _factor_for_date(dates, ex_cum_factors, datetimes[k])]
    IN  [k \in 1..Len(datetimes) |-> RatDiv(factors[k], PyIndex(factors, -1))]

\* lines 178-182: every price field times the factor, volume over it
AdjustRow(row, factor) ==
    [f \in DOMAIN row |->
        IF f \in PRICE_FIELDS THEN RatMul(row[f], factor)
        ELSE IF f = "volume" THEN RatDiv(row[f], factor)
        ELSE row[f]]

\* lines 164-183: the per-row forward adjustment
ForwardAdjust(factors, bars, fields) ==
    IF IsStr(fields)
    THEN IF fields.name \in PRICE_FIELDS
         THEN Ok(Array("fresh", 0, [k \in 1..Len(bars.rows) |->
                     RatMul(bars.rows[k][fields.name], factors[k])]), TRUE, FALSE)
         ELSE IF fields.name = "volume"
         THEN Ok(Array("fresh", 0, [k \in 1..Len(bars.rows) |->
                     RatDiv(bars.rows[k][fields.name], factors[k])]), TRUE, FALSE)
         ELSE Ok(Take(bars, fields), FALSE, FALSE)
    ELSE LET result == NpCopy(Take(bars, fields))
         IN  Ok(Array(result.owner, result.off,
                      [k \in 1..Len(result.rows) |-> AdjustRow(result.rows[k], factors[k])]),
                TRUE, TRUE)

_adjust_bar(order_book_id, bars, fields) ==
    LET ex_factors == ex_cum_factor[order_book_id]
    IN  IF ~ex_factors.present THEN Ok(Take(bars, fields), FALSE, FALSE)
        ELSE IF Len(bars.rows) = 0 THEN Raise("IndexError")
        ELSE LET datetimes == Column(bars.rows, "datetime")
                 start_date == PyIndex(datetimes, 0)
                 end_date == PyIndex(datetimes, -1)
                 dates == Column(ex_factors.rows, "start_date")
                 ex_cum_factors == Column(ex_factors.rows, "ex_cum_factor")
             IN  IF _factor_for_date(dates, ex_cum_factors, start_date)
                      = _factor_for_date(dates, ex_cum_factors, end_date)
                 THEN Ok(Take(bars, fields), FALSE, FALSE)
                 ELSE ForwardAdjust(NormalizedFactors(dates, ex_cum_factors, datetimes),
                                    bars, fields)

(***************************************************************************)
(* The bar cache: two memoised loaders over the day-bar stores.            *)
(***************************************************************************)
\* DayBarStore.get_bars(order_book_id, fields=None) of partition i
get_bars(i, order_book_id) == day_bars[i][order_book_id]

Miss == [hit |-> FALSE, val |-> Absent]
Hit(val) == [hit |-> TRUE, val |-> val]

\* what a loader did: the series it returns, whether the store was read, and
\* the cache entries it filled
Load(val, read, fill_all, all_val, fill_filtered) ==
    [val |-> val, read |-> read, fill_all |-> fill_all, all_val |-> all_val,
     fill_filtered |-> fill_filtered]

\* a faulty variant of the loader: no memoisation, the store is read each time
_all_day_bars_of_uncached(instrument) ==
    LET bars == get_bars(_index_of(instrument), instrument.order_book_id)
    IN  Load(bars, TRUE, TRUE, bars, FALSE)

_all_day_bars_of(instrument) ==
    IF all_cache[instrument].hit
    THEN Load(all_cache[instrument].val, FALSE, FALSE, Absent, FALSE)
    ELSE LET bars == get_bars(_index_of(instrument), instrument.order_book_id)
         IN  Load(bars, TRUE, TRUE, bars, FALSE)

\* bars[bars['volume'] > 0]: boolean-mask indexing copies the kept rows
VolumeFilter(rows) == SelectSeq(rows, LAMBDA b : b.volume.num > 0)

_filtered_day_bars(instrument) ==
    IF filtered_cache[instrument].hit
    THEN Load(filtered_cache[instrument].val, FALSE, FALSE, Absent, FALSE)
    ELSE LET all == _all_day_bars_of(instrument)
             bars == all.val
         IN  IF ~bars.present
             THEN Load(Absent, all.read, all.fill_all, all.all_val, TRUE)
             ELSE Load(Present(VolumeFilter(bars.rows)), all.read, all.fill_all,
                       all.all_val, TRUE)

\* rows assigned through a view land in the buffer the view belongs to
Overwrite(rows, off, written) ==
    [k \in 1..Len(rows) |->
        IF k > off /\ k <= off + Len(written)
        THEN [f \in DOMAIN rows[k] |->
                 IF f \in DOMAIN written[k - off] THEN written[k - off][f]
                 ELSE rows[k][f]]
        ELSE rows[k]]

\* the cache after a call: the entry the loader filled, then the rows the
\* call assigned in place through a view of that entry
CacheAfter(cache, which, instrument, fill, val, out) ==
    LET filled == IF fill THEN [cache EXCEPT ![instrument] = Hit(val)] ELSE cache
    IN  IF out.status = "ok" /\ out.wrote /\ out.owner = which
        THEN [filled EXCEPT ![instrument].val.rows = Overwrite(@, out.off, out.value)]
        ELSE filled

\* the read counter, saturating at MaxReads
CountRead(instrument, load) ==
    IF load.read /\ get_bars_calls[instrument] < MaxReads
    THEN [get_bars_calls EXCEPT ![instrument] = @ + 1]
    ELSE get_bars_calls

(***************************************************************************)
(* Point lookup.                                                           *)
(***************************************************************************)
Frequencies == {"1d", "1m"}

\* lines 105-117; the result is [load, out]
get_bar(instrument, dt, frequency) ==
    IF frequency # "1d"
    THEN [load |-> Load(Absent, FALSE, FALSE, Absent, FALSE),
          out |-> Raise("NotImplementedError")]
    ELSE LET load == _all_day_bars_of(instrument)
             bars == load.val
         IN  IF ~bars.present THEN [load |-> load, out |-> ReturnNone]
             ELSE LET d == convert_date_to_int(dt)
                      datetimes == Column(bars.rows, "datetime")
                      pos == SearchSortedLeft(datetimes, d)
                  IN  IF pos >= Len(bars.rows) \/ PyIndex(datetimes, pos) # d
                      THEN [load |-> load, out |-> ReturnNone]
                      ELSE [load |-> load,
                            out |-> Ok(Array("all", pos, PyIndex(bars.rows, pos)),
                                       FALSE, FALSE)]

\* lines 119-123: np.nan when there is no bar
get_settle_price(instrument, date) ==
    LET r == get_bar(instrument, date, "1d")
    IN  IF r.out.status = "none"
        THEN [load |-> r.load, out |-> [ReturnNone EXCEPT !.status = "nan"]]
        ELSE [load |-> r.load,
              out |-> Ok(Array("fresh", 0, r.out.value["settlement"]), FALSE, FALSE)]

(***************************************************************************)
(* Window lookup.                                                          *)
(***************************************************************************)
\* set.add returns None: the name is bound to None, not to the set
set_add(s, x) == [is_none |-> TRUE, members |-> {}]

FIELDS_REQUIRE_ADJUSTMENT == set_add(PRICE_FIELDS, "volume")

\* a faulty variant of the window's left edge: one row too many
WindowLeftOneMore(i, bar_count) == IF i > bar_count THEN i - bar_count - 1 ELSE 0

\* line 199: the first row of the window
WindowLeft(i, bar_count) == IF i >= bar_count THEN i - bar_count ELSE 0

\* lines 185-208; the result is [load, selected, window, out]
history_bars(instrument, bar_count, frequency, fields, dt, skip_suspended) ==
    IF frequency # "1d"
    THEN [load |-> Load(Absent, FALSE, FALSE, Absent, FALSE), selected |-> "all",
          window |-> <<>>, out |-> Raise("NotImplementedError")]
    ELSE LET selected == IF skip_suspended /\ instrument.type = "CS"
                         THEN "filtered" ELSE "all"
             load == IF selected = "filtered" THEN _filtered_day_bars(instrument)
                     ELSE _all_day_bars_of(instrument)
             series == load.val
         IN  IF ~series.present \/ ~_are_fields_valid(fields, FieldNames)
             THEN [load |-> load, selected |-> selected, window |-> <<>>,
                   out |-> ReturnNone]
             ELSE LET d == convert_date_to_int(dt)
                      i == SearchSortedRight(Column(series.rows, "datetime"), d)
                      left == WindowLeft(i, bar_count)
                      bars == Slice(Array(selected, 0, series.rows), left, i)
                      out ==
                          IF instrument.type \in {"Future", "INDX"} \/ Len(bars.rows) = 1
                          THEN Ok(Take(bars, fields), FALSE, FALSE)
                          ELSE IF IsStr(fields) /\ FIELDS_REQUIRE_ADJUSTMENT.is_none
                          THEN Raise("TypeError")
                          ELSE IF IsStr(fields)
                                  /\ fields.name \notin FIELDS_REQUIRE_ADJUSTMENT.members
                          THEN Ok(Take(bars, fields), FALSE, FALSE)
                          ELSE _adjust_bar(instrument.order_book_id, bars, fields)
                  IN  [load |-> load, selected |-> selected, window |-> bars.rows,
                       out |-> out]

(***************************************************************************)
(* The operations of the data source, one action per public call.          *)
(***************************************************************************)
Selectors ==
    {NoFields, OneField("close"), OneField("settlement"), OneField("turnover"),
     FieldList({"datetime", "close", "volume"})}

\* the requested counts a caller tries
BarCounts == 0..Cardinality(calendar)

\* the caller is synchronous: a call starts only when no result is pending
Idle == [op |-> "idle"]

\* what is recorded of a call refused for its frequency, which is all the
\* call read of its arguments
Refused(op, frequency, out) == [op |-> op, frequency |-> frequency, out |-> out]

GetBar ==
    /\ ret = Idle
    /\ \E instrument \in Instruments, dt \in calendar, frequency \in Frequencies :
       \E r \in {get_bar(instrument, dt, frequency)} :
        /\ ret' = IF frequency # "1d" THEN Refused("get_bar", frequency, r.out)
                  ELSE [op |-> "get_bar", instrument |-> instrument, dt |-> dt,
                        frequency |-> frequency, out |-> r.out]
        /\ all_cache' = CacheAfter(all_cache, "all", instrument, r.load.fill_all,
                                   r.load.all_val, r.out)
        /\ get_bars_calls' = CountRead(instrument, r.load)
        /\ UNCHANGED <<calendar, day_bars, ex_cum_factor, filtered_cache>>

GetSettlePrice ==
    /\ ret = Idle
    /\ \E instrument \in Instruments, date \in calendar :
       \E r \in {get_settle_price(instrument, date)} :
        /\ ret' = [op |-> "get_settle_price", instrument |-> instrument,
                   dt |-> date, frequency |-> "1d", out |-> r.out]
        /\ all_cache' = CacheAfter(all_cache, "all", instrument, r.load.fill_all,
                                   r.load.all_val, r.out)
        /\ get_bars_calls' = CountRead(instrument, r.load)
        /\ UNCHANGED <<calendar, day_bars, ex_cum_factor, filtered_cache>>

HistoryBars ==
    /\ ret = Idle
    /\ \E instrument \in Instruments, bar_count \in BarCounts,
          frequency \in Frequencies, fields \in Selectors, dt \in calendar,
          skip_suspended \in BOOLEAN :
       \E r \in {history_bars(instrument, bar_count, frequency, fields, dt,
                               skip_suspended)} :
        /\ ret' = IF frequency # "1d" THEN Refused("history_bars", frequency, r.out)
                  ELSE [op |-> "history_bars", instrument |-> instrument,
                        bar_count |-> bar_count, frequency |-> frequency,
                        fields |-> fields, dt |-> dt,
                        skip_suspended |-> skip_suspended,
                        selected |-> r.selected, window |-> r.window, out |-> r.out]
        /\ all_cache' = CacheAfter(all_cache, "all", instrument, r.load.fill_all,
                                   r.load.all_val, r.out)
        /\ filtered_cache' = CacheAfter(filtered_cache, "filtered", instrument,
                                        r.load.fill_filtered, r.load.val, r.out)
        /\ get_bars_calls' = CountRead(instrument, r.load)
        /\ UNCHANGED <<calendar, day_bars, ex_cum_factor>>

\* the caller takes the result (or the exception) of the call
Return ==
    /\ ret # Idle
    /\ ret' = Idle
    /\ UNCHANGED <<calendar, day_bars, ex_cum_factor, all_cache, filtered_cache,
                   get_bars_calls>>

Next == GetBar \/ GetSettlePrice \/ HistoryBars \/ Return

(***************************************************************************)
(* The stores a data source is constructed over.                           *)
(***************************************************************************)
\* the j-th smallest member of a set of integers
Nth(S, j) == CHOOSE k \in S : Cardinality({x \in S : x < k}) = j - 1

\* the bar of calendar day k in partition p; a suspended day has no volume
BarRow(k, p, traded) ==
    [datetime |-> convert_date_to_int(Day(k)),
     close |-> R(10 * (p + 1) + k),
     volume |-> IF traded THEN R(100 + k) ELSE R(0),
     settlement |-> R(10 * (p + 1) + k + 1)]

\* a series from a pattern day -> "none" / "halt" / "trade"; an instrument
\* without a bar has no series
SeriesOf(pattern, p) ==
    LET days == {k \in DOMAIN pattern : pattern[k] # "none"}
    IN  IF days = {} THEN Absent ELSE
        Present([j \in 1..Cardinality(days) |->
                    BarRow(Nth(days, j), p, pattern[Nth(days, j)] = "trade")])

\* a factor series from day -> factor (0: no breakpoint on that day)
FactorsOf(steps) ==
    LET days == {k \in DOMAIN steps : steps[k] # 0}
    IN  IF days = {} THEN Absent
        ELSE Present([j \in 1..Cardinality(days) |->
                         [start_date |-> convert_date_to_int(Day(Nth(days, j))),
                          ex_cum_factor |-> R(steps[Nth(days, j)])]])

\* the stores: every instrument's series sits in its own partition only
Stores(series) ==
    [p \in Partitions |->
        [id \in OrderBookIds |->
            IF \E i \in Instruments : i.order_book_id = id /\ _index_of(i) = p
            THEN series[p] ELSE Absent]]

EmptyCaches ==
    /\ all_cache = [i \in Instruments |-> Miss]
    /\ filtered_cache = [i \in Instruments |-> Miss]
    /\ get_bars_calls = [i \in Instruments |-> 0]
    /\ ret = Idle

\* every series over the calendar (or no series at all), few factor series
InitBars ==
    /\ calendar = {Day(k) : k \in 1..MaxDays}
    /\ \E pattern \in [1..MaxDays -> {"none", "halt", "trade"}] :
          day_bars = Stores([p \in Partitions |-> SeriesOf(pattern, p)])
    /\ \E steps \in {[k \in 1..MaxDays |-> IF k = 1 THEN 1 ELSE IF k = 2 THEN 2 ELSE 0]} :
          ex_cum_factor = [id \in OrderBookIds |-> FactorsOf(steps)]
    /\ EmptyCaches

\* the full series, every factor series over the calendar
InitFactors ==
    /\ calendar = {Day(k) : k \in 1..MaxDays}
    /\ day_bars = Stores([p \in Partitions |->
                             SeriesOf([k \in 1..MaxDays |-> "trade"], p)])
    /\ \E steps \in [1..MaxDays -> {0, 1, 2}] :
          ex_cum_factor = [id \in OrderBookIds |-> FactorsOf(steps)]
    /\ EmptyCaches

Init == InitBars \/ InitFactors

Spec == Init /\ [][Next]_vars

(***************************************************************************)
(* The adjustment engine on its own: the step function and _adjust_bar     *)
(* applied to every factor series over the breakpoint days and every       *)
(* slice of bars over the days around them.                                *)
(***************************************************************************)
EngineId == "000001.XSHE"

\* the days of the slices: one before the first breakpoint day, one after
\* the last
EngineDays == 0..(MaxBreaks + 1)

FactorForDate ==
    /\ ret = Idle
    /\ ex_cum_factor[EngineId].present
    /\ \E dt \in calendar :
       LET ex_factors == ex_cum_factor[EngineId]
           d == convert_date_to_int(dt)
       IN  /\ ret' = [op |-> "_factor_for_date", d |-> d,
                      value |-> _factor_for_date(Column(ex_factors.rows, "start_date"),
                                                 Column(ex_factors.rows, "ex_cum_factor"),
                                                 d)]
           /\ UNCHANGED <<calendar, day_bars, ex_cum_factor, all_cache,
                          filtered_cache, get_bars_calls>>

AdjustBar ==
    /\ ret = Idle
    /\ \E days \in SUBSET EngineDays, fields \in {NoFields, OneField("close"),
                                                   FieldList({"close", "volume"})} :
       LET pattern == [k \in EngineDays |-> IF k \in days THEN "trade" ELSE "none"]
           bars == Array("fresh", 0, SeriesOf(pattern, 0).rows)
       IN  /\ ret' = [op |-> "_adjust_bar", bars |-> bars.rows, fields |-> fields,
                      out |-> _adjust_bar(EngineId, bars, fields)]
           /\ UNCHANGED <<calendar, day_bars, ex_cum_factor, all_cache,
                          filtered_cache, get_bars_calls>>

NextEngine == FactorForDate \/ AdjustBar \/ Return

\* every non-empty factor series with breakpoints on days 1..MaxBreaks and
\* factors in 1..MaxFactor, or no series
InitEngine ==
    /\ calendar = {Day(k) : k \in EngineDays}
    /\ day_bars = Stores([p \in Partitions |-> Absent])
    /\ \E steps \in [1..MaxBreaks -> 0..MaxFactor] :
          ex_cum_factor = [id \in OrderBookIds |-> FactorsOf(steps)]
    /\ EmptyCaches

SpecEngine == InitEngine /\ [][NextEngine]_vars

(***************************************************************************)
(* The split scenario: 000001.XSHE has bars on 2020-01-02..2020-01-10      *)
(* closing at 10 before the split of 2020-01-05 and at 5 from then on; the *)
(* factor series has a breakpoint at or before the first bar and one on    *)
(* the split day, with factors 1 then 2, or 2 then 1.                      *)
(***************************************************************************)
ScenarioDays == 2..10

ScenarioBars ==
    [j \in 1..Cardinality(ScenarioDays) |->
        [datetime |-> convert_date_to_int(Date(2020, 1, j + 1)),
         close |-> IF j + 1 < 5 THEN R(10) ELSE R(5),
         volume |-> R(100),
         settlement |-> IF j + 1 < 5 THEN R(10) ELSE R(5)]]

ScenarioFactors(first_date, before, after) ==
    Present(<<[start_date |-> first_date, ex_cum_factor |-> R(before)],
              [start_date |-> convert_date_to_int(Date(2020, 1, 5)),
               ex_cum_factor |-> R(after)]>>)

InitScenario ==
    /\ calendar = {Date(2020, 1, k) : k \in ScenarioDays}
    /\ day_bars = [p \in Partitions |->
                      [id \in OrderBookIds |->
                          IF p = _index_of(StockInst) /\ id = StockInst.order_book_id
                          THEN Present(ScenarioBars) ELSE Absent]]
    /\ \E first_date \in {0, convert_date_to_int(Date(2020, 1, 2))},
          f \in {<<1, 2>>, <<2, 1>>} :
          ex_cum_factor = [id \in OrderBookIds |->
                              IF id = StockInst.order_book_id
                              THEN ScenarioFactors(first_date, f[1], f[2]) ELSE Absent]
    /\ EmptyCaches

SpecScenario == InitScenario /\ [][Next]_vars

(***************************************************************************)
(* What the stores hold, read without the data source.                     *)
(***************************************************************************)
RawSeries(instrument) ==
    day_bars[INSTRUMENT_TYPE_MAP[instrument.type]][instrument.order_book_id]

\* the rows of a series that traded
RowsWithVolume(rows) == SelectSeq(rows, LAMBDA b : b.volume.num > 0)

\* the series a window query is about: volume-filtered for CS when asked
SelectedRows(instrument, skip_suspended) ==
    IF skip_suspended /\ instrument.type = "CS"
    THEN RowsWithVolume(RawSeries(instrument).rows)
    ELSE RawSeries(instrument).rows

\* its rows dated at or before dt
PriorRows(instrument, skip_suspended, dt) ==
    SelectSeq(SelectedRows(instrument, skip_suspended),
              LAMBDA b : b.datetime <= convert_date_to_int(dt))

Min(a, b) == IF a <= b THEN a ELSE b

\* the last Min(n, k) of k rows
LastRows(rows, n) == SubSeq(rows, Len(rows) - Min(n, Len(rows)) + 1, Len(rows))

\* a daily history_bars call has run and its outcome is in ret
HistoryDone == ret.op = "history_bars" /\ ret.frequency = "1d"

\* ... on a present series with a valid selector
HistoryServed ==
    /\ HistoryDone
    /\ RawSeries(ret.instrument).present
    /\ _are_fields_valid(ret.fields, FieldNames)

\* the window the call is about, from the stores
ExpectedWindow ==
    LastRows(PriorRows(ret.instrument, ret.skip_suspended, ret.dt), ret.bar_count)

(***************************************************************************)
(* C1: a daily history_bars call with n >= 1 on a present series and a     *)
(* valid selector that returns rows returns the min(n, k) most recent rows *)
(* of the selected series (raw, or volume-filtered for CS with             *)
(* skip_suspended) dated at or before the reference date, in ascending     *)
(* order, k being the number of such rows: the window it cut is those rows,*)
(* the result has one row per window row, and a result that is not         *)
(* adjusted is the window's projection on the selector.                    *)
(***************************************************************************)
C1_WindowIsMostRecentRows ==
    (HistoryServed /\ ret.bar_count >= 1 /\ ret.out.status = "ok") =>
        /\ ret.window = ExpectedWindow
        /\ Len(ret.out.value) = Min(ret.bar_count,
                                    Len(PriorRows(ret.instrument, ret.skip_suspended, ret.dt)))
        /\ Len(ret.out.value) <= ret.bar_count
        /\ \A j \in 1..(Len(ret.window) - 1) :
              ret.window[j].datetime < ret.window[j + 1].datetime
        /\ ~ret.out.adjusted =>
              ret.out.value = Take(Array("fresh", 0, ExpectedWindow), ret.fields).rows
        /\ (ret.out.adjusted /\ ~IsStr(ret.fields)) =>
              \A j \in 1..Len(ret.out.value) :
                  ret.out.value[j].datetime = ExpectedWindow[j].datetime

\* a CS window over the volume-filtered series that is shorter than asked for
\* and skips a suspended day
C1_Witness ==
    /\ HistoryServed /\ ret.out.status = "ok"
    /\ ret.instrument.type = "CS" /\ ret.skip_suspended
    /\ ret.bar_count = 3 /\ Len(ret.out.value) = 2
    /\ Len(PriorRows(ret.instrument, FALSE, ret.dt)) = 3

(***************************************************************************)
(* C7: a daily get_bar returns None for every date that is not the date of *)
(* a row of the instrument's raw series, and for a date that is, the one   *)
(* row with that date, as the store holds it (unadjusted).                 *)
(***************************************************************************)
C7_GetBarExactRow ==
    (ret.op = "get_bar" /\ ret.frequency = "1d") =>
        LET raw == RawSeries(ret.instrument)
            hits == {k \in 1..Len(raw.rows) :
                        raw.rows[k].datetime = convert_date_to_int(ret.dt)}
        IN  IF hits = {} THEN ret.out.status = "none"
            ELSE /\ Cardinality(hits) = 1
                 /\ ret.out.status = "ok"
                 /\ \A k \in hits : ret.out.value = raw.rows[k]

\* None for a date between two rows of the series
C7_Witness ==
    /\ ret.op = "get_bar" /\ ret.frequency = "1d" /\ ret.out.status = "none"
    /\ LET raw == RawSeries(ret.instrument)
           d == convert_date_to_int(ret.dt)
       IN  /\ \E k \in 1..Len(raw.rows) : raw.rows[k].datetime < d
           /\ \E k \in 1..Len(raw.rows) : raw.rows[k].datetime > d

(***************************************************************************)
(* C8: over any sequence of calls the store's get_bars is read at most     *)
(* once per instrument (once exactly when the instrument has a cache       *)
(* entry, also when the read returned None), and an entry of either cache, *)
(* once added, is never removed or replaced.                               *)
(***************************************************************************)
C8_ReadOnceCacheGrows ==
    /\ [](\A i \in Instruments :
             /\ get_bars_calls[i] = IF all_cache[i].hit THEN 1 ELSE 0
             /\ filtered_cache[i].hit => all_cache[i].hit)
    /\ [][\A i \in Instruments :
             /\ all_cache[i].hit => all_cache'[i] = all_cache[i]
             /\ filtered_cache[i].hit => filtered_cache'[i] = filtered_cache[i]]_vars

\* a later call on an instrument whose read returned None: the filtered
\* entry shows an earlier history_bars call, and the store was read once
C8_Witness ==
    /\ ret.op = "get_bar" /\ ret.frequency = "1d"
    /\ filtered_cache[ret.instrument].hit
    /\ ~all_cache[ret.instrument].val.present
    /\ get_bars_calls[ret.instrument] = 1

(***************************************************************************)
(* C9: no call changes a cached series: every entry of the raw cache       *)
(* equals the series the store returned and every entry of the filtered    *)
(* cache equals its rows with volume > 0, after any sequence of calls; and *)
(* an adjusted result lives in a buffer of its own, not in a cached one.   *)
(***************************************************************************)
C9_CachedSeriesNeverMutated ==
    /\ \A i \in Instruments :
          /\ all_cache[i].hit => all_cache[i].val = RawSeries(i)
          /\ filtered_cache[i].hit =>
                /\ filtered_cache[i].val.present = RawSeries(i).present
                /\ filtered_cache[i].val.rows = RowsWithVolume(RawSeries(i).rows)
    /\ (HistoryDone /\ ret.out.status = "ok" /\ ret.out.adjusted) =>
          ret.out.owner = "fresh"

\* the adjustment engine rewrote the rows of a window cut from the cache
C9_Witness ==
    /\ HistoryDone /\ ret.out.status = "ok" /\ ret.out.adjusted /\ ret.out.wrote
    /\ ret.out.value # Take(Array("fresh", 0, ret.window), ret.fields).rows
    /\ all_cache[ret.instrument].hit

(***************************************************************************)
(* The factor step function as the data model defines it: the factor at    *)
(* the last breakpoint at or before d, the earliest factor before the      *)
(* first breakpoint.                                                       *)
(***************************************************************************)
StepFactor(factor_rows, d) ==
    LET at == {k \in 1..Len(factor_rows) : factor_rows[k].start_date <= d}
    IN  IF at = {} THEN factor_rows[1].ex_cum_factor
        ELSE factor_rows[Cardinality(at)].ex_cum_factor

\* the instrument has no factor series, or one factor governs every row
ConstantFactorOn(rows, order_book_id) ==
    \/ ~ex_cum_factor[order_book_id].present
    \/ \A j, k \in 1..Len(rows) :
          StepFactor(ex_cum_factor[order_book_id].rows, rows[j].datetime)
              = StepFactor(ex_cum_factor[order_book_id].rows, rows[k].datetime)

(***************************************************************************)
(* C3: a daily history_bars call on a present series with a valid selector *)
(* (none, one name, or a list) whose window has rows that all have the     *)
(* same adjustment factor returns the raw window projected on the          *)
(* selector, and does not raise.                                           *)
(***************************************************************************)
C3_ConstantFactorReturnsRaw ==
    (/\ HistoryServed
     /\ ExpectedWindow # <<>>
     /\ ConstantFactorOn(ExpectedWindow, ret.instrument.order_book_id)) =>
        /\ ret.out.status = "ok"
        /\ ret.out.value = Take(Array("fresh", 0, ExpectedWindow), ret.fields).rows

(***************************************************************************)
(* C5: a daily history_bars call on a present series with a valid selector *)
(* whose window is empty (the reference date is before every bar of the    *)
(* selected series, or the count is 0) returns an empty or absent result   *)
(* and does not raise, whatever the instrument's category.                 *)
(***************************************************************************)
C5_EmptyWindowIsNoData ==
    (HistoryServed /\ ExpectedWindow = <<>>) =>
        /\ ret.out.status \in {"ok", "none"}
        /\ ret.out.value = <<>>

(***************************************************************************)
(* C6: a daily history_bars call for an instrument that is not exempt from *)
(* adjustment, with a window of two or more rows and one field name of the *)
(* series that is neither a price field nor volume, returns that column of *)
(* the window unadjusted, and does not raise.                              *)
(***************************************************************************)
C6_PassThroughFieldUnadjusted ==
    (/\ HistoryServed
     /\ ret.instrument.type \notin {"Future", "INDX"}
     /\ Len(ExpectedWindow) >= 2
     /\ IsStr(ret.fields)
     /\ ret.fields.name \notin PRICE_FIELDS \cup {"volume"}) =>
        /\ ret.out.status = "ok"
        /\ ret.out.value = Column(ExpectedWindow, ret.fields.name)

(***************************************************************************)
(* C2: over a non-empty, strictly ascending breakpoint series, the step    *)
(* function _factor_for_date returns the earliest breakpoint's factor for  *)
(* a date before the first breakpoint and the last breakpoint's factor for *)
(* a date at or after the last breakpoint.                                 *)
(***************************************************************************)
C2_StepFunctionEnds ==
    ret.op = "_factor_for_date" =>
        LET rows == ex_cum_factor[EngineId].rows
        IN  /\ ret.d < rows[1].start_date => ret.value = rows[1].ex_cum_factor
            /\ ret.d >= rows[Len(rows)].start_date =>
                  ret.value = rows[Len(rows)].ex_cum_factor

(***************************************************************************)
(* C10: the fast path of _adjust_bar is sound: for every strictly          *)
(* ascending breakpoint series, whatever its factors, and every slice of   *)
(* bars, if the step function's factor at the slice's first date equals    *)
(* its factor at the last date then every row of the slice has that        *)
(* factor, and what _adjust_bar returns equals what the per-row forward    *)
(* adjustment returns.                                                     *)
(***************************************************************************)
C10_FastPathSound ==
    (/\ ret.op = "_adjust_bar"
     /\ ex_cum_factor[EngineId].present
     /\ ret.bars # <<>>) =>
        LET dates == Column(ex_cum_factor[EngineId].rows, "start_date")
            factors == Column(ex_cum_factor[EngineId].rows, "ex_cum_factor")
            datetimes == Column(ret.bars, "datetime")
            first == _factor_for_date(dates, factors, datetimes[1])
            last == _factor_for_date(dates, factors, datetimes[Len(datetimes)])
        IN  first = last =>
              /\ \A k \in 1..Len(datetimes) :
                    _factor_for_date(dates, factors, datetimes[k]) = first
              /\ ret.out.value =
                    ForwardAdjust(NormalizedFactors(dates, factors, datetimes),
                                  Array("fresh", 0, ret.bars), ret.fields).value

(***************************************************************************)
(* C4: the split scenario.  The call is history_bars(000001.XSHE, n = 9,   *)
(* reference date 2020-01-10, daily).                                      *)
(***************************************************************************)
ScenarioCall ==
    /\ HistoryDone
    /\ ret.instrument = StockInst
    /\ ret.bar_count = 9
    /\ ret.dt = Date(2020, 1, 10)

\* the factor series steps from `before` to `after` on 2020-01-05
ScenarioSteps(before, after) ==
    \E first_date \in {0, convert_date_to_int(Date(2020, 1, 2))} :
        ex_cum_factor[StockInst.order_book_id] = ScenarioFactors(first_date, before, after)

\* the close column of the result
ResultCloses ==
    IF IsStr(ret.fields) THEN ret.out.value ELSE Column(ret.out.value, "close")

NineFives == [j \in 1..9 |-> R(5)]

\* C4 as stated: with a cumulative factor of 2.0 before the split breakpoint
\* and 1.0 after it, the call (with no field selector or a list of names that
\* holds close) returns the adjusted closes [5,5,5,5,5,5,5,5,5].
C4_AsStated ==
    (/\ ScenarioCall
     /\ ScenarioSteps(2, 1)
     /\ ret.fields \in {NoFields, FieldList({"datetime", "close", "volume"})}) =>
        /\ ret.out.status = "ok"
        /\ ResultCloses = NineFives

\* C4 as amended: with a cumulative factor of 1.0 before the split
\* breakpoint and 2.0 from it on, the call with no field selector or with a
\* list of names that holds close returns rows whose closes are
\* [5,5,5,5,5,5,5,5,5], the three closes before the split halved.
C4_SplitScenarioHalvesEarlierCloses ==
    (/\ ScenarioCall
     /\ ScenarioSteps(1, 2)
     /\ ret.fields \in {NoFields, FieldList({"datetime", "close", "volume"})}) =>
        /\ ret.out.status = "ok"
        /\ ResultCloses = NineFives
        /\ Column(ret.window, "close") = [j \in 1..9 |-> IF j <= 3 THEN R(10) ELSE R(5)]

\* the amended scenario's call has run and the engine adjusted its rows
C4_Witness ==
    /\ ScenarioCall
    /\ ScenarioSteps(1, 2)
    /\ ret.fields = NoFields
    /\ ret.out.status = "ok" /\ ret.out.adjusted
    /\ Len(ret.out.value) = 9

====
